---------------------------- MODULE Spec2Model ----------------------------
(***************************************************************************)
(* Model of the request validation of norejs-core:                         *)
(*   Validator.validateRequest / Validator.validate                        *)
(*       (src/lib/request/validation/validator.ts)                         *)
(*   startWithRule  (src/dist/routes/group.d.ts, lines 13-45)              *)
(*                                                                         *)
(* A JavaScript value is a record whose field k is its kind; strings are   *)
(* sequences of one-character strings so that toLowerCase, startsWith,     *)
(* parseInt and join are computed rather than assumed.                     *)
(***************************************************************************)
EXTENDS Integers, Sequences, FiniteSets, TLC

VARIABLES
    origin,      \* validateRequest's / validate's origin argument
    bucket,      \* TRUE: request[origin] is an object; FALSE: it is undefined
                 \* (request.body when no body parser ran)
    options,     \* the schema: a sequence of [name, def], in Object.keys order
    data,        \* request[origin] when populated: field name -> value
    legacyDate,  \* host's answer for date strings outside the ISO format
    pc,          \* position of the middleware / of validate
    i,           \* index of the field the for loop of line 117 is at
    j,           \* index of the rule the for loop of line 336 is at
    errors,      \* result.errors
    calls,       \* rule predicates invoked so far: <<field, rule index>>
    result,      \* what validate returned (line 355), or NoResult
    nextCalls,   \* number of calls of next()
    response     \* responses written: sequence of [status, body]

vars == <<origin, bucket, options, data, legacyDate, pc, i, j, errors, calls,
          result, nextCalls, response>>

-----------------------------------------------------------------------------
(* Bounds of the exploration *)

\* most fields of a schema
MaxFields == 2
\* most rules of one field
MaxRules == 2

-----------------------------------------------------------------------------
(* JavaScript values *)

Undefined == [k |-> "undefined"]
Null == [k |-> "null"]
Str(s) == [k |-> "string", v |-> s]
Num(n) == [k |-> "number", v |-> n]
Bool(b) == [k |-> "boolean", v |-> b]
Arr(a) == [k |-> "array", v |-> a]
Obj == [k |-> "object"]

\* typeof value
TypeOf(value) ==
    CASE value.k = "undefined" -> "undefined"
      [] value.k = "string" -> "string"
      [] value.k = "number" -> "number"
      [] value.k = "boolean" -> "boolean"
      [] OTHER -> "object"

\* Array.isArray(value)
IsArray(value) == value.k = "array"

UpperToLower ==
    [c \in {"A", "B", "E", "F", "L", "N", "R", "S", "T", "U"} |->
        CASE c = "A" -> "a" [] c = "B" -> "b" [] c = "E" -> "e"
          [] c = "F" -> "f" [] c = "L" -> "l" [] c = "N" -> "n"
          [] c = "R" -> "r" [] c = "S" -> "s" [] c = "T" -> "t"
          [] c = "U" -> "u"]

\* String.prototype.toLowerCase
ToLowerCase(s) ==
    [n \in DOMAIN s |-> IF s[n] \in DOMAIN UpperToLower
                        THEN UpperToLower[s[n]] ELSE s[n]]

\* String.prototype.startsWith
StartsWith(s, p) == Len(s) >= Len(p) /\ SubSeq(s, 1, Len(p)) = p

DigitValue ==
    [c \in {"0", "1", "2", "3", "4", "5", "6", "7", "8", "9"} |->
        CASE c = "0" -> 0 [] c = "1" -> 1 [] c = "2" -> 2 [] c = "3" -> 3
          [] c = "4" -> 4 [] c = "5" -> 5 [] c = "6" -> 6 [] c = "7" -> 7
          [] c = "8" -> 8 [] c = "9" -> 9]

IsDigit(c) == c \in DOMAIN DigitValue

DigitChar(d) == CHOOSE c \in DOMAIN DigitValue : DigitValue[c] = d

RECURSIVE NatToChars(_)
\* Number.prototype.toString of a non-negative integer
NatToChars(n) ==
    IF n < 10 THEN <<DigitChar(n)>>
    ELSE Append(NatToChars(n \div 10), DigitChar(n % 10))

RECURSIVE JoinChars(_, _)
\* Array.prototype.join over already converted items
JoinChars(items, sep) ==
    IF items = <<>> THEN <<>>
    ELSE IF Len(items) = 1 THEN items[1]
    ELSE items[1] \o sep \o JoinChars(Tail(items), sep)

ObjectString ==
    <<"[", "o", "b", "j", "e", "c", "t", " ", "O", "b", "j", "e", "c", "t", "]">>

RECURSIVE ToStringJS(_)
\* the abstract operation ToString: what '${value}', parseInt(value),
\* parseFloat(value) and new Date(value) see of a non-string value
ToStringJS(value) ==
    CASE value.k = "undefined" -> <<"u", "n", "d", "e", "f", "i", "n", "e", "d">>
      [] value.k = "null" -> <<"n", "u", "l", "l">>
      [] value.k = "string" -> value.v
      [] value.k = "number" -> NatToChars(value.v)
      [] value.k = "boolean" ->
            IF value.v THEN <<"t", "r", "u", "e">>
            ELSE <<"f", "a", "l", "s", "e">>
      [] value.k = "array" ->
            JoinChars([n \in DOMAIN value.v |->
                          IF value.v[n].k \in {"undefined", "null"} THEN <<>>
                          ELSE ToStringJS(value.v[n])], <<",">>)
      [] OTHER -> ObjectString

NaN == [nan |-> TRUE]

RECURSIVE LeadingDigits(_)
LeadingDigits(s) ==
    IF s = <<>> \/ ~IsDigit(s[1]) THEN <<>>
    ELSE <<s[1]>> \o LeadingDigits(Tail(s))

RECURSIVE DigitsToNat(_)
DigitsToNat(s) ==
    IF s = <<>> THEN 0
    ELSE 10 * DigitsToNat(SubSeq(s, 1, Len(s) - 1)) + DigitValue[s[Len(s)]]

\* a parseInt that throws where the real one returns NaN
ParseIntThrowing(value) ==
    LET s == ToStringJS(value)
        d == LeadingDigits(s)
    IN [threw |-> d = <<>>,
        value |-> IF d = <<>> THEN NaN ELSE [nan |-> FALSE, n |-> DigitsToNat(d)]]

\* parseInt(value): the longest prefix of ToString(value) that is an integer
\* literal, or NaN when there is none.  It returns; it does not throw for
\* any value a request bucket can hold.
ParseInt(value) ==
    LET s == ToStringJS(value)
        d == LeadingDigits(s)
    IN [threw |-> FALSE,
        value |-> IF d = <<>> THEN NaN ELSE [nan |-> FALSE, n |-> DigitsToNat(d)]]

\* parseFloat(value): as parseInt for the literals of the value domain (no
\* fraction, sign or exponent occurs in it)
ParseFloat(value) ==
    LET s == ToStringJS(value)
        d == LeadingDigits(s)
    IN [threw |-> FALSE,
        value |-> IF d = <<>> THEN NaN ELSE [nan |-> FALSE, n |-> DigitsToNat(d)]]

\* a string of the date-only ISO form YYYY-MM-DD with month and day in range
IsIsoDate(s) ==
    /\ Len(s) = 10
    /\ \A n \in {1, 2, 3, 4, 6, 7, 9, 10} : IsDigit(s[n])
    /\ s[5] = "-" /\ s[8] = "-"
    /\ DigitsToNat(SubSeq(s, 6, 7)) \in 1..12
    /\ DigitsToNat(SubSeq(s, 9, 10)) \in 1..31

HasDigit(s) == \E n \in DOMAIN s : IsDigit(s[n])

\* Date.parse falls back to an implementation-defined parser for these
NeedsLegacyParser(s) == ~IsIsoDate(s) /\ HasDigit(s)

\* isNaN(new Date(value).getTime())
DateIsNaN(value, legacy) ==
    CASE value.k \in {"number", "boolean"} -> FALSE
      [] OTHER ->
            LET s == ToStringJS(value)
            IN IF IsIsoDate(s) THEN FALSE
               ELSE IF HasDigit(s) THEN ~legacy
               ELSE TRUE


-----------------------------------------------------------------------------
(* Validator: the per-field computations of validate *)

FieldTypes ==
    {"string", "object", "array", "bool", "date", "timestamp", "double",
     "int", "long", "decimal"}

DataOrigins == {"query", "body", "params"}

\* line 122: Array.isArray(def.type) ? def.type[0] : def.type
\* (def.type is <<type>> for the scalar form and <<type, message>> for the pair)
fieldType(def) == def.type[1]

\* lines 128-134
isRequired(def) ==
    IF TypeOf(def.required) = "boolean" THEN def.required.v = TRUE
    ELSE IF TypeOf(def.required) = "string" THEN TRUE
    ELSE FALSE

\* lines 137-149
valueFilled(value) ==
    IF value.k # "null" /\ value.k # "undefined"
    THEN IF TypeOf(value) = "string" THEN Len(ToStringJS(value)) # 0
         ELSE IF IsArray(value) THEN Len(value.v) # 0
         ELSE TRUE
    ELSE FALSE

\* isEmpty testing for null alone
isEmptyNullOnly(value) == value.k = "null"

\* line 179
isEmpty(value) == value.k = "null" \/ value.k = "undefined"

\* lines 165-167: a message is the sequence of the parts of its text
requiredMessage(def, field) ==
    IF TypeOf(def.required) = "string" THEN def.required.v
    ELSE <<"The field '", field, "' is required">>

\* lines 182-184
typeErrorMessage(def, field) ==
    IF Len(def.type) = 2 THEN def.type[2]
    ELSE <<"The value of '", field, "' must be a valid ", fieldType(def)>>

\* the switch with a case-sensitive comparison in the bool case
typeMismatchCaseSensitive(type, orig, value, legacy) ==
    CASE type = "string" -> TypeOf(value) # "string"
      [] type = "array" -> ~IsArray(value)
      [] type = "bool" ->
            IF orig \in {"query", "params"}
            THEN /\ TypeOf(value) = "string"
                 /\ Len(value.v) # 0
                 /\ value.v \notin
                        {<<"t", "r", "u", "e">>, <<"f", "a", "l", "s", "e">>}
            ELSE TypeOf(value) # "boolean"
      [] type = "date" -> DateIsNaN(value, legacy)
      [] type \in {"decimal", "double"} -> ParseFloat(value).threw
      [] type \in {"int", "long", "timestamp"} -> ParseInt(value).threw
      [] type = "object" -> TypeOf(value) # "object"
      [] OTHER -> FALSE

\* lines 186-329: TRUE when the switch reports the value as not of the type
typeMismatch(type, orig, value, legacy) ==
    CASE type = "string" -> TypeOf(value) # "string"
      [] type = "array" -> ~IsArray(value)
      [] type = "bool" ->
            IF orig \in {"query", "params"}
            THEN /\ TypeOf(value) = "string"
                 /\ Len(value.v) # 0
                 /\ ToLowerCase(value.v) \notin
                        {<<"t", "r", "u", "e">>, <<"f", "a", "l", "s", "e">>}
            ELSE TypeOf(value) # "boolean"
      [] type = "date" -> DateIsNaN(value, legacy)
      [] type \in {"decimal", "double"} -> ParseFloat(value).threw
      [] type \in {"int", "long", "timestamp"} -> ParseInt(value).threw
      [] type = "object" -> TypeOf(value) # "object"
      [] OTHER -> FALSE

\* addError without the search for an entry of the same field
addErrorNoMerge(errs, error) == Append(errs, error)

\* lines 101-114
addError(errs, error) ==
    IF \E n \in DOMAIN errs : errs[n].field = error.field
    THEN LET n == CHOOSE m \in DOMAIN errs :
                    /\ errs[m].field = error.field
                    /\ \A l \in 1..(m - 1) : errs[l].field # error.field
         IN [errs EXCEPT ![n].message = @ \o error.message]
    ELSE Append(errs, error)

\* the error payload every addError call of validate builds
ErrorOf(orig, field, def, value, message) ==
    [origin |-> orig, field |-> field, type |-> fieldType(def),
     value |-> value, message |-> <<message>>]

\* lines 155-171
requiredCheck(errs, orig, field, def, value) ==
    IF isRequired(def) /\ ~valueFilled(value)
    THEN addError(errs, ErrorOf(orig, field, def, value, requiredMessage(def, field)))
    ELSE errs

\* lines 181-330
typeCheck(errs, orig, field, def, value, legacy) ==
    IF ~isEmpty(value) /\ typeMismatch(fieldType(def), orig, value, legacy)
    THEN addError(errs, ErrorOf(orig, field, def, value, typeErrorMessage(def, field)))
    ELSE errs

\* the rules run for required fields alone
rulesRunRequiredOnly(def, value) == isRequired(def)

\* the rules run for every field
rulesRunAlways(def, value) == TRUE

\* line 332
rulesRun(def, value) == isRequired(def) \/ ~isEmpty(value)

\* line 336: def.rules ?? []
rulesOf(def) == def.rules

-----------------------------------------------------------------------------
(* Rules *)

\* message of the TypeError raised by calling startsWith on a value without it
TypeErrorText == Str(<<"T", "y", "p", "e", "E", "r", "r", "o", "r">>)

RECURSIVE startWithItems(_, _)
\* group.d.ts lines 31-36, inside the try of line 29
startWithItems(items, pattern) ==
    IF items = <<>> THEN Bool(TRUE)
    ELSE IF TypeOf(items[1]) # "string" THEN TypeErrorText
    ELSE IF ~StartsWith(items[1].v, pattern) THEN Bool(FALSE)
    ELSE startWithItems(Tail(items), pattern)

\* group.d.ts lines 28-43: what startWithRule(pattern).validator returns
startWithValidator(value, pattern) ==
    IF IsArray(value) THEN startWithItems(value.v, pattern)
    ELSE IF TypeOf(value) = "string" THEN Bool(StartsWith(value.v, pattern))
    ELSE TypeErrorText

\* group.d.ts lines 21-27: the second argument the engine passes is the
\* field's options object, which the template prints as [object Object]
startWithMessage(value, pattern) ==
    IF IsArray(value)
    THEN <<"Each item of '", "[object Object]", "' must start with '">> \o pattern \o <<"'">>
    ELSE <<"The field '", "[object Object]", "' value must start with '">> \o pattern \o <<"'">>

\* group.d.ts lines 19-45
startWithRule(pattern) ==
    [validator |-> "startWith", pattern |-> pattern, message |-> "function"]

\* rules a caller may write: a predicate that rejects, with or without a
\* static message, and a predicate that throws
rejectRule == [validator |-> "reject", pattern |-> <<>>, message |-> "none"]
rejectWithMessage == [validator |-> "reject", pattern |-> <<>>, message |-> "static"]
throwRule == [validator |-> "throw", pattern |-> <<>>, message |-> "none"]

\* line 337: rule.validator(value, def, data): whether it threw, and what it returned
invoke(rule, value) ==
    CASE rule.validator = "startWith" ->
            [threw |-> FALSE, ret |-> startWithValidator(value, rule.pattern)]
      [] rule.validator = "reject" -> [threw |-> FALSE, ret |-> Bool(FALSE)]
      [] OTHER -> [threw |-> TRUE, ret |-> Undefined]

\* JavaScript truthiness of a returned value (the ! of line 337)
Truthy(v) ==
    CASE v.k = "boolean" -> v.v
      [] v.k = "string" -> Len(v.v) # 0
      [] v.k = "number" -> v.v # 0
      [] v.k \in {"undefined", "null"} -> FALSE
      [] OTHER -> TRUE

\* lines 338-342
ruleMessage(rule, field, value) ==
    IF rule.message = "static" THEN <<"custom rule message">>
    ELSE IF rule.message = "function" THEN startWithMessage(value, rule.pattern)
    ELSE <<"'", field, "' value is not valid">>

\* lines 337-350, for a predicate that returned
ruleCheck(errs, orig, field, def, value, rule) ==
    IF ~Truthy(invoke(rule, value).ret)
    THEN addError(errs, ErrorOf(orig, field, def, value, ruleMessage(rule, field, value)))
    ELSE errs

\* lines 355-362
resultOf(errs) ==
    [message |-> JoinChars([n \in DOMAIN errs |-> JoinChars(errs[n].message, <<"; ">>)],
                           <<"; ">>),
     errors |-> errs]

NoResult == [message |-> <<>>, errors |-> <<"none">>]

-----------------------------------------------------------------------------
(* Inputs: the schemas and request data explored *)

FieldNames == <<"email", "age", "name">>

Values ==
    {Undefined, Null,
     Str(<<>>), Str(<<"t", "r", "u", "e">>), Str(<<"F", "a", "l", "s", "e">>),
     Str(<<"a", "b", "c">>), Str(<<"b", "a", "n", "a", "n", "a">>),
     Str(<<"1", "2">>),
     Str(<<"2", "0", "2", "0", "-", "0", "1", "-", "0", "2">>),
     Bool(TRUE), Num(5),
     Arr(<<>>), Arr(<<Str(<<"a", "b", "c">>)>>),
     Arr(<<Str(<<"b", "a", "n", "a", "n", "a">>)>>), Arr(<<Num(5)>>),
     Obj}

\* what the bucket of an origin can hold: a JSON body holds any value; a parsed
\* query string holds strings, arrays of strings and nested objects; path
\* parameters are strings
ValuesFrom(orig) ==
    CASE orig = "body" -> Values
      [] orig = "query" ->
            {v \in Values :
                \/ v.k \in {"undefined", "string", "object"}
                \/ v.k = "array" /\ v.v # <<>> /\ \A n \in DOMAIN v.v : v.v[n].k = "string"}
      [] OTHER -> {v \in Values : v.k \in {"undefined", "string"}}

\* def.type: the scalar form and the [type, message] pair
TypeForms ==
    {<<t>> : t \in FieldTypes} \cup {<<t, <<"custom type message">>>> : t \in FieldTypes}

\* def.required: absent, false, true, or a message
RequiredForms == {Undefined, Bool(FALSE), Bool(TRUE), Str(<<"custom required message">>)}

Rules == {startWithRule(<<"a">>), rejectRule, rejectWithMessage, throwRule}

RuleLists(rules) == UNION {[1..n -> rules] : n \in 0..MaxRules}

\* the definitions of a schema of one field: every type in both forms, every
\* form of required, every list of at most MaxRules rules
Defs == [type : TypeForms, required : RequiredForms, rules : RuleLists(Rules)]

\* the smaller domain the schemas of several fields are drawn from
SomeValues == {Undefined, Str(<<>>), Str(<<"b", "a", "n", "a", "n", "a">>)}

SomeDefs ==
    [type : {<<"string">>, <<"array", <<"custom type message">>>>},
     required : {Undefined, Bool(TRUE)},
     rules : {<<>>, <<rejectRule>>, <<rejectWithMessage, rejectRule>>, <<throwRule>>}]

NameOf(n) == FieldNames[n]

InitWith(sizes, defs, values) ==
    /\ origin \in DataOrigins
    /\ bucket \in (IF origin = "body" THEN BOOLEAN ELSE {TRUE})
    /\ \E n \in sizes :
          /\ options \in [1..n -> defs]
          /\ IF bucket
             THEN data \in [{NameOf(m) : m \in 1..n} -> values \cap ValuesFrom(origin)]
             ELSE data = [f \in {NameOf(m) : m \in 1..n} |-> Undefined]
    /\ legacyDate \in
          IF \E m \in DOMAIN options :
                /\ fieldType(options[m]) = "date"
                /\ ~isEmpty(data[NameOf(m)])
                /\ NeedsLegacyParser(ToStringJS(data[NameOf(m)]))
          THEN BOOLEAN ELSE {FALSE}
    /\ pc = "idle"
    /\ i = 0
    /\ j = 0
    /\ errors = <<>>
    /\ calls = <<>>
    /\ result = NoResult
    /\ nextCalls = 0
    /\ response = <<>>

\* every schema of at most one field over the whole domain, and every schema
\* of 2..MaxFields fields over the smaller one
Init ==
    \/ InitWith({0, 1}, Defs, Values)
    \/ InitWith(2..MaxFields, SomeDefs, SomeValues)

-----------------------------------------------------------------------------
(* validateRequest's middleware and validate, step by step *)

field == NameOf(i)
def == options[i]
\* line 125
value == data[field]

\* lines 64-66 and 90-95: the middleware calls validate, which loads the
\* bucket and starts with no errors
ValidateStart ==
    /\ pc = "idle"
    /\ pc' = "field"
    /\ i' = 1
    /\ errors' = <<>>
    /\ UNCHANGED <<origin, bucket, options, data, legacyDate, j, calls, result,
                   nextCalls, response>>

\* lines 117-330 for field i: data[field] of an undefined bucket is a
\* TypeError; otherwise the required check and the type check
FieldChecks ==
    /\ pc = "field"
    /\ i <= Len(options)
    /\ IF ~bucket
       THEN /\ pc' = "threw"
            /\ UNCHANGED <<errors, j>>
       ELSE /\ errors' = typeCheck(requiredCheck(errors, origin, field, def, value),
                                   origin, field, def, value, legacyDate)
            /\ j' = 1
            /\ pc' = "rules"
    /\ UNCHANGED <<origin, bucket, options, data, legacyDate, i, calls, result,
                   nextCalls, response>>

\* lines 336-351 for rule j: the predicate is awaited; if it throws, validate
\* rejects; if its answer is falsy the rule's message is added
RuleStep ==
    /\ pc = "rules"
    /\ rulesRun(def, value)
    /\ j <= Len(rulesOf(def))
    /\ calls' = Append(calls, <<field, j>>)
    /\ IF invoke(rulesOf(def)[j], value).threw
       THEN /\ pc' = "threw"
            /\ UNCHANGED <<errors, j>>
       ELSE /\ errors' = ruleCheck(errors, origin, field, def, value, rulesOf(def)[j])
            /\ j' = j + 1
            /\ pc' = "rules"
    /\ UNCHANGED <<origin, bucket, options, data, legacyDate, i, result,
                   nextCalls, response>>

\* lines 332/336 exhausted: on to the next key of the schema
NextField ==
    /\ pc = "rules"
    /\ ~rulesRun(def, value) \/ j > Len(rulesOf(def))
    /\ i' = i + 1
    /\ pc' = "field"
    /\ UNCHANGED <<origin, bucket, options, data, legacyDate, j, errors, calls,
                   result, nextCalls, response>>

\* lines 355-362
Return ==
    /\ pc = "field"
    /\ i > Len(options)
    /\ result' = resultOf(errors)
    /\ pc' = "returned"
    /\ UNCHANGED <<origin, bucket, options, data, legacyDate, i, j, errors, calls,
                   nextCalls, response>>

\* lines 69-70
MiddlewareNext ==
    /\ pc = "returned"
    /\ Len(result.errors) = 0
    /\ nextCalls' = nextCalls + 1
    /\ pc' = "done"
    /\ UNCHANGED <<origin, bucket, options, data, legacyDate, i, j, errors, calls,
                   result, response>>

\* the else branch without its return: the response is sent and next() called
MiddlewareRespondThenNext ==
    /\ pc = "returned"
    /\ Len(result.errors) # 0
    /\ response' = Append(response, [status |-> 422, body |-> result])
    /\ nextCalls' = nextCalls + 1
    /\ pc' = "done"
    /\ UNCHANGED <<origin, bucket, options, data, legacyDate, i, j, errors, calls,
                   result>>

\* lines 71-73
MiddlewareRespond ==
    /\ pc = "returned"
    /\ Len(result.errors) # 0
    /\ response' = Append(response, [status |-> 422, body |-> result])
    /\ pc' = "done"
    /\ UNCHANGED <<origin, bucket, options, data, legacyDate, i, j, errors, calls,
                   result, nextCalls>>

Next ==
    \/ ValidateStart
    \/ FieldChecks
    \/ RuleStep
    \/ NextField
    \/ Return
    \/ MiddlewareNext
    \/ MiddlewareRespond

Spec == Init /\ [][Next]_vars

-----------------------------------------------------------------------------
(* Vocabulary of the properties *)

fieldAt(m) == NameOf(m)
defAt(m) == options[m]
valueAt(m) == data[NameOf(m)]

\* the value is absent from the data, or null
AbsentOrNull(v) == v.k \in {"undefined", "null"}

\* validate has returned to the middleware
Returned == pc \in {"returned", "done"}

\* the required check and the type check of field m have been executed
Checked(m) ==
    /\ bucket
    /\ \/ pc \in {"rules", "threw"} /\ i >= m
       \/ pc \in {"field", "returned", "done"} /\ i > m

\* the messages recorded so far for a field name
MessagesOf(errs, f) ==
    IF \E n \in DOMAIN errs : errs[n].field = f
    THEN (errs[CHOOSE n \in DOMAIN errs : errs[n].field = f]).message
    ELSE <<>>

Occurrences(seq, x) == Cardinality({n \in DOMAIN seq : seq[n] = x})

RequiredRecorded(m) ==
    Occurrences(MessagesOf(errors, fieldAt(m)), requiredMessage(defAt(m), fieldAt(m))) > 0

TypeRecorded(m) ==
    Occurrences(MessagesOf(errors, fieldAt(m)), typeErrorMessage(defAt(m), fieldAt(m))) > 0

\* the rules of field m whose predicate has been invoked
Invoked(m) == {k \in DOMAIN rulesOf(defAt(m)) : \E n \in DOMAIN calls : calls[n] = <<fieldAt(m), k>>}

NoRuleThrows ==
    \A m \in DOMAIN options : \A k \in DOMAIN rulesOf(defAt(m)) :
        rulesOf(defAt(m))[k].validator # "throw"

-----------------------------------------------------------------------------
(* C1 *)

\* field m is satisfied by the data: filled if required, and if present
\* (non-null) of its declared type and passing every rule
Satisfied(m) ==
    /\ isRequired(defAt(m)) =>
          /\ ~AbsentOrNull(valueAt(m))
          /\ valueAt(m) # Str(<<>>)
          /\ valueAt(m) # Arr(<<>>)
    /\ ~AbsentOrNull(valueAt(m)) =>
          /\ ~typeMismatch(fieldType(defAt(m)), origin, valueAt(m), legacyDate)
          /\ \A k \in DOMAIN rulesOf(defAt(m)) :
                Truthy(invoke(rulesOf(defAt(m))[k], valueAt(m)).ret)

\* C1: when no rule throws, the result validate returns has an empty errors
\* list if and only if every required field is filled and every present field
\* passes the type check of its declared type and every one of its rules.
C1_EmptyIffSatisfied ==
    (Returned /\ NoRuleThrows) =>
        ((Len(result.errors) = 0) <=> (\A m \in DOMAIN options : Satisfied(m)))

\* a run that returned no error for a required, filled array field with rules
C1_Witness ==
    /\ pc = "done"
    /\ NoRuleThrows
    /\ Len(result.errors) = 0
    /\ Len(options) = 1
    /\ isRequired(defAt(1))
    /\ rulesOf(defAt(1)) # <<>>
    /\ fieldType(defAt(1)) = "array"

-----------------------------------------------------------------------------
(* C2 *)

RECURSIVE RuleMessagesOf(_, _, _)
\* the messages of the rules of field m picked by the index set ks, taken in
\* declared order from rule n on
RuleMessagesOf(m, ks, n) ==
    IF n > Len(rulesOf(defAt(m))) THEN <<>>
    ELSE (IF n \in ks
          THEN <<ruleMessage(rulesOf(defAt(m))[n], fieldAt(m), valueAt(m))>>
          ELSE <<>>) \o RuleMessagesOf(m, ks, n + 1)

\* a message list of the ordered shape: required message (if any), then type
\* message (if any), then messages of some rules in declared order
OrderedMessages(m, msgs) ==
    \E r \in {<<>>, <<requiredMessage(defAt(m), fieldAt(m))>>} :
    \E t \in {<<>>, <<typeErrorMessage(defAt(m), fieldAt(m))>>} :
    \E ks \in SUBSET DOMAIN rulesOf(defAt(m)) :
        msgs = r \o t \o RuleMessagesOf(m, ks, 1)

\* C2: in every result of validate no two entries of errors have the same
\* field name, and each entry's messages are ordered: required failure, then
\* type mismatch, then the rule failures in declared rule order.
C2_OneEntryOrdered ==
    Returned =>
        /\ \A a, b \in DOMAIN result.errors :
              result.errors[a].field = result.errors[b].field => a = b
        /\ \A a \in DOMAIN result.errors :
              \E m \in DOMAIN options :
                  /\ fieldAt(m) = result.errors[a].field
                  /\ OrderedMessages(m, result.errors[a].message)

\* a result with two entries, the first holding a required message, a type
\* message and two rule messages
C2_Witness ==
    /\ pc = "done"
    /\ Len(result.errors) = 2
    /\ Len(result.errors[1].message) = 4
    /\ result.errors[1].message[1] = requiredMessage(defAt(1), fieldAt(1))
    /\ result.errors[1].message[2] = typeErrorMessage(defAt(1), fieldAt(1))

-----------------------------------------------------------------------------
(* C3 *)

Optional(m) == defAt(m).required \in {Undefined, Bool(FALSE)}

EmptyStringOrArray(v) == v = Str(<<>>) \/ v = Arr(<<>>)

\* C3 as stated: an optional field whose value is absent, null, the empty
\* string or an empty array gets no required message and no type-mismatch
\* message, and none of its rules is invoked.
C3_AsStated ==
    \A m \in DOMAIN options :
        (Optional(m) /\ (AbsentOrNull(valueAt(m)) \/ EmptyStringOrArray(valueAt(m)))) =>
            /\ ~RequiredRecorded(m)
            /\ ~TypeRecorded(m)
            /\ Invoked(m) = {}

\* C3 amended: an optional field whose value is absent or null gets no
\* required message and no type-mismatch message and none of its rules is
\* invoked; an optional field whose value is the empty string or an empty
\* array gets no required message either, but it is type-checked like any
\* present value and, once validate has returned, every one of its rules has
\* been invoked.
C3_OptionalAbsent ==
    \A m \in DOMAIN options :
        /\ (Optional(m) /\ AbsentOrNull(valueAt(m))) =>
              /\ ~RequiredRecorded(m)
              /\ ~TypeRecorded(m)
              /\ Invoked(m) = {}
        /\ (Optional(m) /\ EmptyStringOrArray(valueAt(m))) =>
              /\ ~RequiredRecorded(m)
              /\ Checked(m) =>
                    (TypeRecorded(m) <=>
                        typeMismatch(fieldType(defAt(m)), origin, valueAt(m), legacyDate))
              /\ Returned => Invoked(m) = DOMAIN rulesOf(defAt(m))

\* validate returned for an optional absent field that declares rules, and
\* invoked none of them
C3_Witness ==
    /\ pc = "done"
    /\ Len(options) = 1
    /\ Optional(1)
    /\ valueAt(1) = Undefined
    /\ Len(rulesOf(defAt(1))) = MaxRules
    /\ calls = <<>>
    /\ result.errors = <<>>

-----------------------------------------------------------------------------
(* C4 *)

IsTrueOrFalse(v) ==
    /\ v.k = "string"
    /\ ToLowerCase(v.v) \in {<<"t", "r", "u", "e">>, <<"f", "a", "l", "s", "e">>}

\* C4 as stated: a non-null value of a bool field is accepted (no type
\* mismatch) under query or params exactly when it is "true" or "false" in any
\* letter case, and under body exactly when it is a native boolean.
C4_AsStated ==
    \A m \in DOMAIN options :
        (Checked(m) /\ fieldType(defAt(m)) = "bool" /\ ~AbsentOrNull(valueAt(m))) =>
            IF origin \in {"query", "params"}
            THEN ~TypeRecorded(m) <=> IsTrueOrFalse(valueAt(m))
            ELSE ~TypeRecorded(m) <=> valueAt(m).k = "boolean"

\* C4 amended: under query or params a non-null value of a bool field gets a
\* type mismatch exactly when it is a non-empty string other than "true" and
\* "false" in any letter case (the empty string and values that are not
\* strings are accepted); under body it is accepted exactly when it is a
\* native boolean.
C4_BoolByOrigin ==
    \A m \in DOMAIN options :
        (Checked(m) /\ fieldType(defAt(m)) = "bool" /\ ~AbsentOrNull(valueAt(m))) =>
            IF origin \in {"query", "params"}
            THEN TypeRecorded(m) <=>
                    /\ valueAt(m).k = "string"
                    /\ valueAt(m) # Str(<<>>)
                    /\ ~IsTrueOrFalse(valueAt(m))
            ELSE ~TypeRecorded(m) <=> valueAt(m).k = "boolean"

\* a query value "False" was checked against bool and accepted
C4_Witness ==
    /\ Len(options) = 1
    /\ Checked(1)
    /\ origin = "query"
    /\ fieldType(defAt(1)) = "bool"
    /\ valueAt(1) = Str(<<"F", "a", "l", "s", "e">>)
    /\ ~TypeRecorded(1)

-----------------------------------------------------------------------------
(* C7 *)

NumericTypes == {"int", "long", "timestamp", "double", "decimal"}

\* a string holding no number: not empty and without a leading digit
NonNumericString(v) == v.k = "string" /\ v.v # <<>> /\ ~IsDigit(v.v[1])

\* C7: a non-numeric string value of a field declared int, long, timestamp,
\* double or decimal gets no type mismatch; when the field is not required and
\* has no rules, the result holds no error for it.
C7_NaNNotCaught ==
    \A m \in DOMAIN options :
        (/\ Checked(m)
         /\ fieldType(defAt(m)) \in NumericTypes
         /\ NonNumericString(valueAt(m))) =>
            /\ ~TypeRecorded(m)
            /\ (Returned /\ Optional(m) /\ rulesOf(defAt(m)) = <<>>) =>
                  \A a \in DOMAIN result.errors : result.errors[a].field # fieldAt(m)

\* schema { email: { type: "int" } } with body { email: "abc" } returned no error
C7_Witness ==
    /\ pc = "done"
    /\ origin = "body"
    /\ Len(options) = 1
    /\ defAt(1) = [type |-> <<"int">>, required |-> Undefined, rules |-> <<>>]
    /\ valueAt(1) = Str(<<"a", "b", "c">>)
    /\ result.errors = <<>>
    /\ nextCalls = 1

-----------------------------------------------------------------------------
(* C9 *)

\* C9 as stated: no field receives both a required-failure message and a
\* type-mismatch message.
C9_AsStated ==
    \A m \in DOMAIN options : ~(RequiredRecorded(m) /\ TypeRecorded(m))

\* C9 amended: a field whose required check fails because its value is absent
\* or null gets no type-mismatch message; a field receives both a
\* required-failure and a type-mismatch message only when its value is the
\* empty string or an empty array (which fails the required check and is still
\* type-checked).
C9_BothOnlyWhenEmptyValue ==
    \A m \in DOMAIN options :
        /\ (RequiredRecorded(m) /\ AbsentOrNull(valueAt(m))) => ~TypeRecorded(m)
        /\ (RequiredRecorded(m) /\ TypeRecorded(m)) => EmptyStringOrArray(valueAt(m))

\* a result in which the first field, required and absent, holds its required
\* message alone and the second, required and "", holds both messages
C9_Witness ==
    /\ pc = "done"
    /\ Len(options) = 2
    /\ valueAt(1) = Undefined
    /\ RequiredRecorded(1)
    /\ ~TypeRecorded(1)
    /\ valueAt(2) = Str(<<>>)
    /\ RequiredRecorded(2)
    /\ TypeRecorded(2)

-----------------------------------------------------------------------------
(* C5 *)

\* C5: once validate has completed, exactly one of two things happens: with no
\* errors next() is called once and no response is written; with errors one
\* response is sent, status 422 and the ValidationResult as body, and next()
\* is never called.  Before that neither has happened.
C5_NextOrRespond ==
    /\ pc = "done" =>
          IF Len(result.errors) = 0
          THEN nextCalls = 1 /\ response = <<>>
          ELSE /\ nextCalls = 0
               /\ response = <<[status |-> 422, body |-> result]>>
               /\ result.errors = errors
    /\ pc # "done" => (nextCalls = 0 /\ response = <<>>)

\* a request answered 422 with a result of two error entries
C5_Witness ==
    /\ pc = "done"
    /\ Len(response) = 1
    /\ response[1].status = 422
    /\ Len(response[1].body.errors) = 2
    /\ nextCalls = 0

-----------------------------------------------------------------------------
(* C6 *)

\* the run ended in an exception thrown by the predicate of rule j of field i
RuleThrew ==
    /\ bucket
    /\ i \in DOMAIN options
    /\ j \in DOMAIN rulesOf(defAt(i))
    /\ invoke(rulesOf(defAt(i))[j], valueAt(i)).threw
    /\ calls # <<>>
    /\ calls[Len(calls)] = <<fieldAt(i), j>>

\* C6: validate never raises on its own, whatever the bucket of the origin
\* holds (a bucket never populated included): the only run that ends in an
\* exception is one in which a rule's predicate threw.
C6_OnlyRulesThrow == pc = "threw" => RuleThrew

-----------------------------------------------------------------------------
(* C8 *)

RECURSIVE RuleCalls(_, _)
\* <<field, 1>> .. <<field, n>>
RuleCalls(f, n) == IF n = 0 THEN <<>> ELSE Append(RuleCalls(f, n - 1), <<f, n>>)

RECURSIVE ExpectedCalls(_)
\* for the fields 1..m in schema key order: each rule once, in declared order,
\* of every field that is required or whose value is non-null
ExpectedCalls(m) ==
    IF m = 0 THEN <<>>
    ELSE ExpectedCalls(m - 1) \o
         (IF isRequired(defAt(m)) \/ ~AbsentOrNull(valueAt(m))
          THEN RuleCalls(fieldAt(m), Len(rulesOf(defAt(m))))
          ELSE <<>>)

\* the run of validate has ended
Ended == pc \in {"returned", "done", "threw"}

\* C8: in every run of validate in which no rule throws, the rule predicates
\* invoked are exactly, for each field in schema key order, each rule of the
\* field once in declared order if the field is required or its value is
\* non-null, and none otherwise.
C8_AllRulesInOrder ==
    (Ended /\ ~RuleThrew) => calls = ExpectedCalls(Len(options))

\* the same over the runs whose bucket is populated, where it holds
C8_PopulatedBucket ==
    (Ended /\ ~RuleThrew /\ bucket) => calls = ExpectedCalls(Len(options))

-----------------------------------------------------------------------------
(* C10 *)

\* the value passes startWithRule(pattern) as the rule is described: a string
\* starting with pattern, or an array whose every item starts with it
StartsWithPattern(v, pattern) ==
    \/ v.k = "string" /\ StartsWith(v.v, pattern)
    \/ /\ v.k = "array"
       /\ \A n \in DOMAIN v.v : v.v[n].k = "string" /\ StartsWith(v.v[n].v, pattern)

\* C10: the rule built by startWithRule(pattern) passes exactly when the value
\* is a string that starts with pattern or an array every item of which does;
\* on every other value it is run on it fails and adds one rule message: the
\* field's entry holds one such message per invoked startWithRule when the
\* value does not start with the pattern, and none when it does.
C10_StartWith ==
    \A m \in DOMAIN options :
        LET ks == {k \in Invoked(m) : rulesOf(defAt(m))[k].validator = "startWith"}
            text == startWithMessage(valueAt(m), <<"a">>)
        IN Occurrences(MessagesOf(errors, fieldAt(m)), text) =
              IF StartsWithPattern(valueAt(m), <<"a">>) THEN 0 ELSE Cardinality(ks)

\* the scenario of the claim, which the code satisfies: type string with
\* startWithRule("a") on "banana" yields one entry holding the rule's message
C10_Banana ==
    (/\ Returned
     /\ Len(options) = 1
     /\ defAt(1).type = <<"string">>
     /\ Optional(1)
     /\ rulesOf(defAt(1)) = <<startWithRule(<<"a">>)>>
     /\ valueAt(1) = Str(<<"b", "a", "n", "a", "n", "a">>)) =>
        /\ Len(result.errors) = 1
        /\ result.errors[1].field = fieldAt(1)
        /\ result.errors[1].message =
              <<startWithMessage(valueAt(1), <<"a">>)>>

=============================================================================
